---- MODULE Spec2Model ----
(***************************************************************************)
(* Athena database resource (aws/resource_aws_athena_database.go): the     *)
(* create / read / update / delete handlers, the query-execution wait      *)
(* (queryExecutionResult, queryExecutionStateRefreshFunc) and the poll     *)
(* session that drives a submitted query to a terminal status.             *)
(*                                                                         *)
(* Every resource instance runs one handler at a time; different resource  *)
(* instances run their handlers concurrently.  A handler submits a query   *)
(* (StartQueryExecution), waits for it in a poll session, fetches the      *)
(* result set (GetQueryResults) and inspects the rows.                     *)
(***************************************************************************)
EXTENDS Integers, Sequences, FiniteSets, TLC

\* ------------------------------------------------------------------ bounds
\* Largest number of probe calls that fit into one wait before the timeout
\* has certainly elapsed (the timeout may also elapse earlier).
MaxPolls == 3
\* Largest number of rows in a fetched result set.
MaxRows == 2

\* --------------------------------------------------------------- universe
Res == {"r1", "r2"}
\* The "name" attribute of every modelled resource, and another database.
DbName == "db"
DbNames == {"db", "other"}
Nil == "nil"
Reasons == {"syntax error"}

QUEUED == "QUEUED"
RUNNING == "RUNNING"
SUCCEEDED == "SUCCEEDED"
FAILED == "FAILED"
CANCELLED == "CANCELLED"
QueryExecutionStates == {QUEUED, RUNNING, SUCCEEDED, FAILED, CANCELLED}

\* ----------------------------------------------------------------- errors
NoError == [kind |-> "nil", detail |-> ""]
GetQueryExecutionError == [kind |-> "GetQueryExecutionError", detail |-> ""]
StartQueryExecutionError == [kind |-> "StartQueryExecutionError", detail |-> ""]
GetQueryResultsError == [kind |-> "GetQueryResultsError", detail |-> ""]
\* fmt.Errorf("reason: %s", reason)
ReasonError(reason) == [kind |-> "reason: ", detail |-> reason]
UnexpectedStateError(state) == [kind |-> "UnexpectedStateError", detail |-> state]
TimeoutError(lastState) == [kind |-> "TimeoutError", detail |-> lastState]
CancellationError == [kind |-> "CancellationError", detail |-> ""]
UnexpectedQueryResult(q) == [kind |-> "unexpected query result", detail |-> q]
NotFoundDatabase(name) == [kind |-> "Athena not found database", detail |-> name]

\* ------------------------------------------------- GetQueryExecution output
\* A nil output / nil QueryExecution / nil Status has hasStatus = FALSE.
NilOutput ==
    [seq |-> 0, apiErr |-> FALSE, hasStatus |-> FALSE, State |-> "",
     StateChangeReason |-> Nil]

\* What the n-th GetQueryExecution call of a session can answer: an API
\* error, an answer without a status record, or a status record with a state
\* and, for FAILED and CANCELLED, possibly a state-change reason.
GetQueryExecutionOutputs(n) ==
    {[seq |-> n, apiErr |-> TRUE, hasStatus |-> FALSE, State |-> "",
      StateChangeReason |-> Nil]}
    \cup {[seq |-> n, apiErr |-> FALSE, hasStatus |-> FALSE, State |-> "",
           StateChangeReason |-> Nil]}
    \cup {[seq |-> n, apiErr |-> FALSE, hasStatus |-> TRUE, State |-> s,
           StateChangeReason |-> Nil] : s \in QueryExecutionStates}
    \cup {[seq |-> n, apiErr |-> FALSE, hasStatus |-> TRUE, State |-> s,
           StateChangeReason |-> q] : s \in {FAILED, CANCELLED}, q \in Reasons}

\* The remote side reported QUEUED or RUNNING / reported no status record.
IsPendingOutput(o) == ~o.apiErr /\ o.hasStatus /\ o.State \in {QUEUED, RUNNING}
IsAbsentOutput(o) == ~o.apiErr /\ ~o.hasStatus

\* The result sets GetQueryResults can return: rows of one datum each.
ResultSets == UNION {[1..n -> DbNames] : n \in 0..MaxRows}
NoResultSet == [ok |-> FALSE, Rows |-> <<>>]

\* ------------------------------------------------------- the wait's config
\* Variant: FAILED listed among the pending states.
Pending_WithFailed == {QUEUED, RUNNING, FAILED}
Pending == {QUEUED, RUNNING}
\* Variant: FAILED listed among the target states.
Target_WithFailed == {SUCCEEDED, FAILED}
Target == {SUCCEEDED}
executionStateConf == [Pending |-> Pending, Target |-> Target]

\* The context the wait runs under: WaitForState() is called without one.
WaitContext == "Background"
\* A context is done when it is the surrounding (cancellable) context and that
\* context has been cancelled; the background context is never done.
CtxDone(ctx, cancelled) == ctx = "Surrounding" /\ cancelled

\* ------------------------------------------------------------- the probe
\* Variant: the probe drops the fetched output and returns a nil result.
queryExecutionStateRefreshFunc_NilResult(o) ==
    IF o.apiErr
      THEN [res |-> NilOutput, state |-> "failed", err |-> GetQueryExecutionError]
    ELSE IF ~o.hasStatus
      THEN [res |-> NilOutput, state |-> "", err |-> NoError]
    ELSE [res |-> NilOutput, state |-> o.State,
          err |-> IF o.State = FAILED /\ o.StateChangeReason # Nil
                    THEN ReasonError(o.StateChangeReason)
                    ELSE NoError]

\* Variant: the probe swallows the error of GetQueryExecution.
queryExecutionStateRefreshFunc_SwallowError(o) ==
    IF o.apiErr \/ ~o.hasStatus
      THEN [res |-> NilOutput, state |-> "", err |-> NoError]
    ELSE [res |-> o, state |-> o.State,
          err |-> IF o.State = FAILED /\ o.StateChangeReason # Nil
                    THEN ReasonError(o.StateChangeReason)
                    ELSE NoError]

\* Variant: the probe does not turn the state-change reason into an error.
queryExecutionStateRefreshFunc_NoReason(o) ==
    IF o.apiErr
      THEN [res |-> NilOutput, state |-> "failed", err |-> GetQueryExecutionError]
    ELSE IF ~o.hasStatus
      THEN [res |-> NilOutput, state |-> "", err |-> NoError]
    ELSE [res |-> o, state |-> o.State, err |-> NoError]

\* One status check: the (result, status, error) triple computed from the
\* GetQueryExecution output o.
queryExecutionStateRefreshFunc(o) ==
    IF o.apiErr
      THEN [res |-> NilOutput, state |-> "failed", err |-> GetQueryExecutionError]
    ELSE IF ~o.hasStatus
      THEN [res |-> NilOutput, state |-> "", err |-> NoError]
    ELSE [res |-> o, state |-> o.State,
          err |-> IF o.State = FAILED /\ o.StateChangeReason # Nil
                    THEN ReasonError(o.StateChangeReason)
                    ELSE NoError]

\* --------------------------------------------------- the poller's dispatch
\* How the poll session classifies one probe triple: a probe error first,
\* then target, then pending; an empty status with no error is "not yet
\* available" and is waited on like a pending one; anything else is
\* unexpected.
ClassifyStatus(conf, obs) ==
    IF obs.err # NoError THEN "error"
    ELSE IF obs.state \in conf.Target THEN "target"
    ELSE IF obs.state \in conf.Pending THEN "pending"
    ELSE IF obs.state = "" THEN "absent"
    ELSE "unexpected"

\* ------------------------------------------------------------------ state
VARIABLES
    active,        \* the resource instances that take part in this run
    op,            \* per resource: the handler that runs or ran last
    hpc,           \* per resource: the handler's position
    query,         \* per resource: the query being executed
    id,            \* per resource: the resource ID ("" = unset)
    ret,           \* per resource: the error the handler returned last
    rs,            \* per resource: the result set fetched for the query
    spc,           \* per resource: the poll session's position
    calls,         \* per resource: probe calls started in this session
    pendingSeen,   \* per resource: QUEUED/RUNNING observations in this session
    absentSeen,    \* per resource: observations without a status record
    inflight,      \* per resource: probe calls started and not yet returned
    out,           \* per resource: the last GetQueryExecution output
    waitRet,       \* per resource: what the poll session returned
    ctxCancelled   \* the surrounding context has been cancelled

\* The Route53 health check resource (one instance).
VARIABLES
    hcOp,          \* the health check handler that runs or ran last
    hcPc,          \* the API call the handler is about to make ("idle" = none)
    hcId,          \* the resource ID ("" = unset)
    hcAttrs,       \* the other attributes of the resource data
    hcOldTags,     \* the tags before the change that Update applies
    hcRet,         \* the error the handler returned last
    hcAnswer,      \* what the last Route53 API call answered
    hcRemote,      \* the health check on the remote side
    hcTrail        \* what has run since the health check vanished remotely

hcVars == <<hcOp, hcPc, hcId, hcAttrs, hcOldTags, hcRet, hcAnswer, hcRemote,
            hcTrail>>

vars == <<active, op, hpc, query, id, ret, rs, spc, calls, pendingSeen,
          absentSeen, inflight, out, waitRet, ctxCancelled, hcVars>>

handlerVars == <<op, hpc, query, id, ret, rs>>
sessionVars == <<spc, calls, pendingSeen, absentSeen, inflight, out, waitRet>>

\* Everything one resource instance owns.
Own(r) == <<op[r], hpc[r], query[r], id[r], ret[r], rs[r], spc[r], calls[r],
            pendingSeen[r], absentSeen[r], inflight[r], out[r], waitRet[r]>>

\* The triple the last probe call of r's session returned.
Obs(r) == queryExecutionStateRefreshFunc(out[r])

InitCommon ==
    /\ op = [r \in Res |-> "none"]
    /\ hpc = [r \in Res |-> "idle"]
    /\ query = [r \in Res |-> "none"]
    /\ id = [r \in Res |-> ""]
    /\ ret = [r \in Res |-> NoError]
    /\ rs = [r \in Res |-> NoResultSet]
    /\ spc = [r \in Res |-> "none"]
    /\ calls = [r \in Res |-> 0]
    /\ pendingSeen = [r \in Res |-> 0]
    /\ absentSeen = [r \in Res |-> 0]
    /\ inflight = [r \in Res |-> 0]
    /\ out = [r \in Res |-> NilOutput]
    /\ waitRet = [r \in Res |-> [res |-> NilOutput, err |-> NoError]]
    /\ ctxCancelled = FALSE
    /\ hcOp = "none"
    /\ hcPc = "idle"
    /\ hcId = ""
    /\ hcAttrs = [config |-> "", tags |-> "", arn |-> ""]
    /\ hcOldTags = ""
    /\ hcRet = NoError
    /\ hcAnswer = "none"
    /\ hcRemote = [exists |-> FALSE, config |-> "", tags |-> ""]
    /\ hcTrail = "n/a"

\* One resource instance.
Init == active = {"r1"} /\ InitCommon
\* Several resource instances whose handlers run concurrently.
InitConcurrent == active = Res /\ InitCommon
\* --------------------------------------------------------------- handlers
\* The query a handler submits first: Create submits "create database",
\* Read and Update submit "show databases", Delete submits "drop database".
QueryOf(o) ==
    CASE o = "create" -> "create"
      [] o = "delete" -> "drop"
      [] OTHER -> "show"

\* The handler body that runs for operation o: Update is Read.
HandlerOf(o) == IF o = "update" THEN "read" ELSE o

\* The locals of a wait (configuration, probe, counters, last output, result)
\* as they are before the wait is entered and after its caller returned.
NoSession ==
    [spc |-> "none", calls |-> 0, pendingSeen |-> 0, absentSeen |-> 0,
     inflight |-> 0, out |-> NilOutput,
     waitRet |-> [res |-> NilOutput, err |-> NoError]]

\* queryExecutionResult has returned to its caller: the wait it ran is gone.
EndWait(r) ==
    /\ spc' = [spc EXCEPT ![r] = NoSession.spc]
    /\ calls' = [calls EXCEPT ![r] = NoSession.calls]
    /\ pendingSeen' = [pendingSeen EXCEPT ![r] = NoSession.pendingSeen]
    /\ absentSeen' = [absentSeen EXCEPT ![r] = NoSession.absentSeen]
    /\ inflight' = [inflight EXCEPT ![r] = NoSession.inflight]
    /\ out' = [out EXCEPT ![r] = NoSession.out]
    /\ waitRet' = [waitRet EXCEPT ![r] = NoSession.waitRet]

\* The handler of r returns e; the wait and the result set it held are gone.
Return(r, e) ==
    /\ hpc' = [hpc EXCEPT ![r] = "idle"]
    /\ ret' = [ret EXCEPT ![r] = e]
    /\ rs' = [rs EXCEPT ![r] = NoResultSet]
    /\ spc' = [spc EXCEPT ![r] = NoSession.spc]
    /\ calls' = [calls EXCEPT ![r] = NoSession.calls]
    /\ pendingSeen' = [pendingSeen EXCEPT ![r] = NoSession.pendingSeen]
    /\ absentSeen' = [absentSeen EXCEPT ![r] = NoSession.absentSeen]
    /\ inflight' = [inflight EXCEPT ![r] = NoSession.inflight]
    /\ out' = [out EXCEPT ![r] = NoSession.out]
    /\ waitRet' = [waitRet EXCEPT ![r] = NoSession.waitRet]

\* A handler is invoked on r: Create on a resource without an ID; Read,
\* Update or Delete on a resource that has one.
Begin(r, o) ==
    /\ r \in active
    /\ hpc[r] = "idle"
    /\ ~ctxCancelled
    /\ (o = "create") <=> (id[r] = "")
    /\ op' = [op EXCEPT ![r] = HandlerOf(o)]
    /\ query' = [query EXCEPT ![r] = QueryOf(o)]
    /\ hpc' = [hpc EXCEPT ![r] = "start"]
    /\ ret' = [ret EXCEPT ![r] = NoError]
    /\ UNCHANGED <<hcVars, active, id, rs, sessionVars, ctxCancelled>>

\* conn.StartQueryExecution(input): an error is returned by the handler at
\* once; otherwise the handler goes on to wait for the query.
StartQueryExecution(r) ==
    /\ hpc[r] = "start"
    /\ \E ok \in BOOLEAN :
         IF ok
           THEN /\ hpc' = [hpc EXCEPT ![r] = "started"]
                /\ UNCHANGED <<ret, rs, sessionVars>>
           ELSE Return(r, StartQueryExecutionError)
    /\ UNCHANGED <<hcVars, active, op, query, id, ctxCancelled>>

\* Variant: the probe-call counter is one counter shared by all waits.
queryExecutionResult_SharedCounter(r) ==
    /\ hpc[r] = "started"
    /\ hpc' = [hpc EXCEPT ![r] = "wait"]
    /\ rs' = [rs EXCEPT ![r] = NoResultSet]
    /\ spc' = [spc EXCEPT ![r] = "delay"]
    /\ calls' = [x \in Res |-> NoSession.calls]
    /\ pendingSeen' = [pendingSeen EXCEPT ![r] = NoSession.pendingSeen]
    /\ absentSeen' = [absentSeen EXCEPT ![r] = NoSession.absentSeen]
    /\ inflight' = [inflight EXCEPT ![r] = NoSession.inflight]
    /\ out' = [out EXCEPT ![r] = NoSession.out]
    /\ waitRet' = [waitRet EXCEPT ![r] = NoSession.waitRet]
    /\ UNCHANGED <<hcVars, active, op, query, id, ret, ctxCancelled>>

\* queryExecutionResult builds the wait's configuration and its probe and
\* enters the wait: a fresh poll session that owns its own state.
queryExecutionResult(r) ==
    /\ hpc[r] = "started"
    /\ hpc' = [hpc EXCEPT ![r] = "wait"]
    /\ rs' = [rs EXCEPT ![r] = NoResultSet]
    /\ spc' = [spc EXCEPT ![r] = "delay"]
    /\ calls' = [calls EXCEPT ![r] = NoSession.calls]
    /\ pendingSeen' = [pendingSeen EXCEPT ![r] = NoSession.pendingSeen]
    /\ absentSeen' = [absentSeen EXCEPT ![r] = NoSession.absentSeen]
    /\ inflight' = [inflight EXCEPT ![r] = NoSession.inflight]
    /\ out' = [out EXCEPT ![r] = NoSession.out]
    /\ waitRet' = [waitRet EXCEPT ![r] = NoSession.waitRet]
    /\ UNCHANGED <<hcVars, active, op, query, id, ret, ctxCancelled>>

\* ----------------------------------------------------------- poll session
\* The session of r ends and returns (res, err).
Done(r, res, err) ==
    /\ spc' = [spc EXCEPT ![r] = "done"]
    /\ waitRet' = [waitRet EXCEPT ![r] = [res |-> res, err |-> err]]

\* The session invokes its probe: the GetQueryExecution request goes out.
ProbeCall(r) ==
    /\ spc' = [spc EXCEPT ![r] = "probing"]
    /\ calls' = [calls EXCEPT ![r] = @ + 1]
    /\ inflight' = [inflight EXCEPT ![r] = @ + 1]
    /\ UNCHANGED waitRet

\* The initial delay; then, unless the context is done, the first status
\* check starts.
InitialDelay(r) ==
    /\ spc[r] = "delay"
    /\ IF CtxDone(WaitContext, ctxCancelled)
         THEN Done(r, NilOutput, CancellationError) /\ UNCHANGED <<calls, inflight>>
         ELSE ProbeCall(r)
    /\ UNCHANGED <<hcVars, active, handlerVars, pendingSeen, absentSeen, out,
                   ctxCancelled>>

\* The probe call returns with output o and the session dispatches on the
\* triple: a probe error ends it with that error; a target status ends it
\* with the probe's result; a pending (or not yet available) status leads to
\* the timeout check, where exceeded says that the timeout has elapsed (it
\* certainly has after MaxPolls calls); any other status ends the session
\* with an UnexpectedStateError.
ProbeReturn(r) ==
    /\ spc[r] = "probing"
    /\ \E o \in GetQueryExecutionOutputs(calls[r]), exceeded \in BOOLEAN :
         LET obs == queryExecutionStateRefreshFunc(o)
             class == ClassifyStatus(executionStateConf, obs)
             waiting == class \in {"pending", "absent"}
         IN  /\ waiting => (exceeded \/ calls[r] < MaxPolls)
             /\ ~waiting => ~exceeded
             /\ out' = [out EXCEPT ![r] = o]
             /\ inflight' = [inflight EXCEPT ![r] = @ - 1]
             /\ pendingSeen' = [pendingSeen EXCEPT ![r] =
                                   IF IsPendingOutput(o) THEN @ + 1 ELSE @]
             /\ absentSeen' = [absentSeen EXCEPT ![r] =
                                  IF IsAbsentOutput(o) THEN @ + 1 ELSE @]
             /\ CASE class = "error" -> Done(r, NilOutput, obs.err)
                  [] class = "target" -> Done(r, obs.res, NoError)
                  [] class = "unexpected" ->
                        Done(r, NilOutput, UnexpectedStateError(obs.state))
                  [] OTHER ->
                        IF exceeded
                          THEN Done(r, NilOutput, TimeoutError(obs.state))
                          ELSE /\ spc' = [spc EXCEPT ![r] = "sleeping"]
                               /\ UNCHANGED waitRet
    /\ UNCHANGED <<hcVars, active, handlerVars, calls, ctxCancelled>>

\* The sleep between two status checks; then, unless the context is done,
\* the next status check starts.
PollInterval(r) ==
    /\ spc[r] = "sleeping"
    /\ IF CtxDone(WaitContext, ctxCancelled)
         THEN Done(r, NilOutput, CancellationError) /\ UNCHANGED <<calls, inflight>>
         ELSE ProbeCall(r)
    /\ UNCHANGED <<hcVars, active, handlerVars, pendingSeen, absentSeen, out,
                   ctxCancelled>>

\* ------------------------------------------------------- after the wait
\* Variant: the error of the wait is ignored and the results are fetched.
WaitForStateReturn_IgnoreError(r) ==
    /\ hpc[r] = "wait"
    /\ spc[r] = "done"
    /\ hpc' = [hpc EXCEPT ![r] = "fetch"]
    /\ UNCHANGED <<hcVars, active, op, query, id, ret, rs, sessionVars, ctxCancelled>>

\* queryExecutionResult after WaitForState returned: an error of the wait is
\* returned with no result set, and the three callers return it as it is;
\* otherwise the results are fetched next.
WaitForStateReturn(r) ==
    /\ hpc[r] = "wait"
    /\ spc[r] = "done"
    /\ IF waitRet[r].err # NoError
         THEN Return(r, waitRet[r].err)
         ELSE /\ hpc' = [hpc EXCEPT ![r] = "fetch"]
              /\ UNCHANGED <<ret, rs, sessionVars>>
    /\ UNCHANGED <<hcVars, active, op, query, id, ctxCancelled>>

\* Some datum of some row equals the database name.
HasMatchingRow(rows, dbName) == \E i \in 1..Len(rows) : rows[i] = dbName

\* What executeAndExpectNoRowsWhenCreate / ...MatchingRow / ...NoRowsWhenDrop
\* return for the fetched rows of query q.
ExpectRows(q, rows, dbName) ==
    IF q = "show"
      THEN IF HasMatchingRow(rows, dbName) THEN NoError
           ELSE NotFoundDatabase(dbName)
      ELSE IF Len(rows) # 0 THEN UnexpectedQueryResult(q) ELSE NoError

\* Variant: Create sets the ID before it looks at the rows.
GetQueryResults_SetIdFirst(r) ==
    /\ hpc[r] = "fetch"
    /\ \/ /\ Return(r, GetQueryResultsError)
          /\ UNCHANGED <<query, id>>
       \/ \E rows \in ResultSets :
            LET e == ExpectRows(query[r], rows, DbName)
            IN  IF query[r] = "create"
                  THEN /\ id' = [id EXCEPT ![r] = DbName]
                       /\ IF e # NoError
                            THEN Return(r, e) /\ UNCHANGED query
                            ELSE /\ rs' = [rs EXCEPT ![r] =
                                             [ok |-> TRUE, Rows |-> rows]]
                                 /\ query' = [query EXCEPT ![r] = "show"]
                                 /\ hpc' = [hpc EXCEPT ![r] = "start"]
                                 /\ EndWait(r)
                                 /\ UNCHANGED ret
                ELSE Return(r, e) /\ UNCHANGED <<query, id>>
    /\ UNCHANGED <<hcVars, active, op, ctxCancelled>>

\* conn.GetQueryResults and what the handler does with its answer: a fetch
\* error or a failed check on the rows is returned; Create, once its create
\* query passed the check, sets the ID to the name and goes on as Read does;
\* Read, Update and Delete return nil.
GetQueryResults(r) ==
    /\ hpc[r] = "fetch"
    /\ \/ /\ Return(r, GetQueryResultsError)
          /\ UNCHANGED <<query, id>>
       \/ \E rows \in ResultSets :
            LET e == ExpectRows(query[r], rows, DbName)
            IN  IF e # NoError
                  THEN Return(r, e) /\ UNCHANGED <<query, id>>
                ELSE IF query[r] = "create"
                  THEN /\ rs' = [rs EXCEPT ![r] = [ok |-> TRUE, Rows |-> rows]]
                       /\ id' = [id EXCEPT ![r] = DbName]
                       /\ query' = [query EXCEPT ![r] = "show"]
                       /\ hpc' = [hpc EXCEPT ![r] = "start"]
                       /\ EndWait(r)
                       /\ UNCHANGED ret
                ELSE Return(r, NoError) /\ UNCHANGED <<query, id>>
    /\ UNCHANGED <<hcVars, active, op, ctxCancelled>>

\* ------------------------------------------------------------ environment
\* The surrounding context is cancelled while some handler is running.
Cancel ==
    /\ ~ctxCancelled
    /\ \E r \in active : hpc[r] # "idle"
    /\ ctxCancelled' = TRUE
    /\ UNCHANGED <<hcVars, active, handlerVars, sessionVars>>

Next ==
    \/ \E r \in Res, o \in {"create", "read", "update", "delete"} : Begin(r, o)
    \/ \E r \in Res : StartQueryExecution(r)
    \/ \E r \in Res : queryExecutionResult(r)
    \/ \E r \in Res : InitialDelay(r)
    \/ \E r \in Res : ProbeReturn(r)
    \/ \E r \in Res : PollInterval(r)
    \/ \E r \in Res : WaitForStateReturn(r)
    \/ \E r \in Res : GetQueryResults(r)
    \/ Cancel

Spec == Init /\ [][Next]_vars
ConcurrentSpec == InitConcurrent /\ [][Next]_vars

\* A running poll session keeps taking its steps, and a probe call that was
\* sent comes back.
SessionStep(r) ==
    InitialDelay(r) \/ ProbeReturn(r) \/ PollInterval(r)
FairSpec == Init /\ [][Next]_vars /\ \A r \in Res : WF_vars(SessionStep(r))

TypeOK ==
    /\ active \subseteq Res
    /\ \A r \in Res :
         /\ op[r] \in {"none", "create", "read", "delete"}
         /\ hpc[r] \in {"idle", "start", "started", "wait", "fetch"}
         /\ query[r] \in {"none", "create", "show", "drop"}
         /\ id[r] \in {"", DbName}
         /\ spc[r] \in {"none", "delay", "probing", "sleeping", "done"}
         /\ calls[r] \in 0..MaxPolls
         /\ inflight[r] \in 0..1
\* ====================================================================
\* Route53 health check: Create, Read, Update, Delete
\* ====================================================================
athenaVars == <<active, op, hpc, query, id, ret, rs, spc, calls, pendingSeen,
                absentSeen, inflight, out, waitRet, ctxCancelled>>

\* The ID Route53 gives the health check, the configurations and the tag
\* sets a user can ask for.
HealthCheckId == "hc1"
HcConfigs == {"cfg1", "cfg2"}
HcTagSets == {"none", "tags1"}

NoSuchHealthCheck == [kind |-> "NoSuchHealthCheck", detail |-> ""]
OtherRoute53Error == [kind |-> "OtherRoute53Error", detail |-> ""]
\* The error an API call answered with a.
AnswerErr(a) ==
    IF a = "NoSuchHealthCheck" THEN NoSuchHealthCheck
    ELSE IF a = "Other" THEN OtherRoute53Error
    ELSE NoError
\* fmt.Errorf("<msg> (%s) ...: %w", d.Id(), err)
Wrapped(msg, err) == [kind |-> msg, detail |-> err.kind]
\* isAWSErr(err, code, "")
isAWSErr(err, code) == err.kind = code

\* arn:<partition>:route53:::healthcheck/<id>
HcArn(i) == "healthcheck/" \o i

\* What a Route53 call on the health check with ID i can answer: when the
\* health check exists remotely, success or some API error; when it does not,
\* NoSuchHealthCheck or some other API error.
Route53Answers(i) ==
    IF hcRemote.exists /\ i = HealthCheckId
      THEN {"ok", "Other"}
      ELSE {"NoSuchHealthCheck", "Other"}

\* hcTrail: "clean" = the health check has vanished remotely and since then
\* only Read and Delete have run and every call was answered
\* NoSuchHealthCheck; "read" = the same, and a Read has made its call;
\* "pending" = it vanished while a handler was running; "n/a" otherwise.
TrailAfter(a, isGet) ==
    IF hcTrail \in {"clean", "read"}
      THEN IF a # "NoSuchHealthCheck" THEN "n/a"
           ELSE IF isGet THEN "read" ELSE hcTrail
      ELSE hcTrail
TrailAtReturn(t) == IF t = "pending" THEN "clean" ELSE t

\* The handler returns e.
HcReturn(e) ==
    /\ hcPc' = "idle"
    /\ hcRet' = e

\* A handler is invoked: Create on a resource without an ID with the planned
\* configuration and tags; Update on a resource with an ID with the planned
\* changes; Read or Delete on a resource with an ID.
HcBegin(o) ==
    /\ hcPc = "idle"
    /\ (o = "create") <=> (hcId = "")
    /\ hcOp' = o
    /\ hcRet' = NoError
    /\ hcPc' = CASE o = "create" -> "CreateHealthCheck"
                 [] o = "update" -> "UpdateHealthCheck"
                 [] o = "read" -> "GetHealthCheck"
                 [] OTHER -> "DeleteHealthCheck"
    /\ IF o \in {"create", "update"}
         THEN /\ \E c \in HcConfigs, t \in HcTagSets :
                   hcAttrs' = [hcAttrs EXCEPT !.config = c, !.tags = t]
              /\ hcOldTags' = hcAttrs.tags
              /\ hcTrail' = "n/a"
         ELSE UNCHANGED <<hcAttrs, hcOldTags, hcTrail>>
    /\ UNCHANGED <<athenaVars, hcId, hcAnswer, hcRemote>>

\* Create: conn.CreateHealthCheck; an error is returned, otherwise the ID is
\* set and the tags are set next.
CreateHealthCheck ==
    /\ hcPc = "CreateHealthCheck"
    /\ \E a \in {"ok", "Other"} :
         /\ hcAnswer' = a
         /\ IF a = "ok"
              THEN /\ hcRemote' = [exists |-> TRUE, config |-> hcAttrs.config,
                                   tags |-> "none"]
                   /\ hcId' = HealthCheckId
                   /\ hcPc' = "UpdateTags"
                   /\ UNCHANGED hcRet
              ELSE HcReturn(AnswerErr(a)) /\ UNCHANGED <<hcRemote, hcId>>
    /\ UNCHANGED <<athenaVars, hcOp, hcAttrs, hcOldTags, hcTrail>>

\* Update: conn.UpdateHealthCheck; an error is returned, otherwise the tags
\* are updated if they changed, and then the resource is read.
UpdateHealthCheck ==
    /\ hcPc = "UpdateHealthCheck"
    /\ \E a \in Route53Answers(hcId) :
         /\ hcAnswer' = a
         /\ IF a = "ok"
              THEN /\ hcRemote' = [hcRemote EXCEPT !.config = hcAttrs.config]
                   /\ hcPc' = IF hcAttrs.tags # hcOldTags
                                THEN "UpdateTags" ELSE "GetHealthCheck"
                   /\ UNCHANGED <<hcRet, hcTrail>>
              ELSE /\ HcReturn(AnswerErr(a))
                   /\ hcTrail' = TrailAtReturn(hcTrail)
                   /\ UNCHANGED hcRemote
    /\ UNCHANGED <<athenaVars, hcOp, hcId, hcAttrs, hcOldTags>>

\* keyvaluetags.Route53UpdateTags in Create and Update: an error is returned
\* wrapped, otherwise the resource is read.
Route53UpdateTags ==
    /\ hcPc = "UpdateTags"
    /\ \E a \in Route53Answers(hcId) :
         /\ hcAnswer' = a
         /\ IF a = "ok"
              THEN /\ hcRemote' = [hcRemote EXCEPT !.tags = hcAttrs.tags]
                   /\ hcPc' = "GetHealthCheck"
                   /\ UNCHANGED <<hcRet, hcTrail>>
              ELSE /\ HcReturn(Wrapped(IF hcOp = "create"
                                         THEN "error setting Route53 Health Check tags"
                                         ELSE "error updating Route53 Health Check tags",
                                       AnswerErr(a)))
                   /\ hcTrail' = TrailAtReturn(hcTrail)
                   /\ UNCHANGED hcRemote
    /\ UNCHANGED <<athenaVars, hcOp, hcId, hcAttrs, hcOldTags>>

\* Variant: Read returns NoSuchHealthCheck like any other error.
GetHealthCheck_NoSuchIsError ==
    /\ hcPc = "GetHealthCheck"
    /\ \E a \in Route53Answers(hcId) \cup
                  {x \in {"nil"} : hcRemote.exists /\ hcId = HealthCheckId} :
         /\ hcAnswer' = a
         /\ IF AnswerErr(a) # NoError
              THEN /\ HcReturn(AnswerErr(a))
                   /\ hcTrail' = TrailAtReturn(TrailAfter(a, TRUE))
                   /\ UNCHANGED <<hcId, hcAttrs>>
            ELSE IF a = "nil"
              THEN /\ HcReturn(NoError)
                   /\ hcTrail' = TrailAtReturn(hcTrail)
                   /\ UNCHANGED <<hcId, hcAttrs>>
            ELSE /\ hcAttrs' = [hcAttrs EXCEPT !.config = hcRemote.config]
                 /\ hcPc' = "ListTags"
                 /\ UNCHANGED <<hcId, hcRet, hcTrail>>
    /\ UNCHANGED <<athenaVars, hcOp, hcOldTags, hcRemote>>

\* Read (also the tail of Create and Update): conn.GetHealthCheck.  On
\* NoSuchHealthCheck the ID is cleared and nil is returned; any other error
\* is returned; a nil output returns nil; otherwise the configuration is
\* copied into the attributes and the tags are listed next.
GetHealthCheck ==
    /\ hcPc = "GetHealthCheck"
    /\ \E a \in Route53Answers(hcId) \cup
                  {x \in {"nil"} : hcRemote.exists /\ hcId = HealthCheckId} :
         /\ hcAnswer' = a
         /\ IF AnswerErr(a) # NoError
              THEN IF isAWSErr(AnswerErr(a), "NoSuchHealthCheck")
                     THEN /\ hcId' = ""
                          /\ HcReturn(NoError)
                          /\ hcTrail' = TrailAtReturn(TrailAfter(a, TRUE))
                          /\ UNCHANGED hcAttrs
                     ELSE /\ HcReturn(AnswerErr(a))
                          /\ hcTrail' = TrailAtReturn(TrailAfter(a, TRUE))
                          /\ UNCHANGED <<hcId, hcAttrs>>
            ELSE IF a = "nil"
              THEN /\ HcReturn(NoError)
                   /\ hcTrail' = TrailAtReturn(hcTrail)
                   /\ UNCHANGED <<hcId, hcAttrs>>
            ELSE /\ hcAttrs' = [hcAttrs EXCEPT !.config = hcRemote.config]
                 /\ hcPc' = "ListTags"
                 /\ UNCHANGED <<hcId, hcRet, hcTrail>>
    /\ UNCHANGED <<athenaVars, hcOp, hcOldTags, hcRemote>>

\* Read, second part: keyvaluetags.Route53ListTags; an error is returned
\* wrapped, otherwise tags and arn are set and nil is returned.
Route53ListTags ==
    /\ hcPc = "ListTags"
    /\ \E a \in Route53Answers(hcId) :
         /\ hcAnswer' = a
         /\ IF a = "ok"
              THEN /\ hcAttrs' = [hcAttrs EXCEPT !.tags = hcRemote.tags,
                                                 !.arn = HcArn(hcId)]
                   /\ HcReturn(NoError)
              ELSE /\ HcReturn(Wrapped("error listing tags for Route53 Health Check",
                                       AnswerErr(a)))
                   /\ UNCHANGED hcAttrs
         /\ hcTrail' = TrailAtReturn(hcTrail)
    /\ UNCHANGED <<athenaVars, hcOp, hcId, hcOldTags, hcRemote>>

\* Delete: conn.DeleteHealthCheck; NoSuchHealthCheck returns nil, any other
\* error is returned wrapped, success returns nil.
DeleteHealthCheck ==
    /\ hcPc = "DeleteHealthCheck"
    /\ \E a \in Route53Answers(hcId) :
         LET err == AnswerErr(a)
         IN  /\ hcAnswer' = a
             /\ IF isAWSErr(err, "NoSuchHealthCheck")
                  THEN /\ HcReturn(NoError)
                       /\ hcTrail' = TrailAtReturn(TrailAfter(a, FALSE))
                       /\ UNCHANGED hcRemote
                ELSE IF err # NoError
                  THEN /\ HcReturn(Wrapped("error deleting Route53 Health Check", err))
                       /\ hcTrail' = TrailAtReturn(TrailAfter(a, FALSE))
                       /\ UNCHANGED hcRemote
                ELSE /\ HcReturn(NoError)
                     /\ hcRemote' = [hcRemote EXCEPT !.exists = FALSE]
                     /\ hcTrail' = "clean"
    /\ UNCHANGED <<athenaVars, hcOp, hcId, hcAttrs, hcOldTags>>

\* The health check is deleted on the remote side by someone else.
HcRemoteDelete ==
    /\ hcRemote.exists
    /\ hcRemote' = [hcRemote EXCEPT !.exists = FALSE]
    /\ hcTrail' = IF hcPc = "idle" THEN "clean" ELSE "pending"
    /\ UNCHANGED <<athenaVars, hcOp, hcPc, hcId, hcAttrs, hcOldTags, hcRet,
                   hcAnswer>>

HcNext ==
    \/ \E o \in {"create", "read", "update", "delete"} : HcBegin(o)
    \/ CreateHealthCheck
    \/ UpdateHealthCheck
    \/ Route53UpdateTags
    \/ GetHealthCheck
    \/ Route53ListTags
    \/ DeleteHealthCheck
    \/ HcRemoteDelete

\* The health check resource alone: no Athena database takes part.
HcInit == active = {} /\ InitCommon
HealthCheckSpec == HcInit /\ [][HcNext]_vars

\* ====================================================================
\* Properties
\* ====================================================================
\* The last output of r's session carried a status record with state st.
LastState(r, st) == ~out[r].apiErr /\ out[r].hasStatus /\ out[r].State = st
\* The last output of r's session was FAILED with a reason attached.
FailedWithReason(r) == LastState(r, FAILED) /\ out[r].StateChangeReason # Nil
\* The poll session of r is between its start and its end.
Polling(r) == spc[r] \in {"delay", "probing", "sleeping"}

\* C1: when the probe answered QUEUED or RUNNING N times and then
\* SUCCEEDED (and nothing else), the session has made exactly N+1 probe
\* calls and has ended with no error, returning the output of that last
\* call.
C1_PendingThenTarget ==
    \A r \in Res :
        (LastState(r, SUCCEEDED) /\ absentSeen[r] = 0) =>
            /\ spc[r] = "done"
            /\ calls[r] = pendingSeen[r] + 1
            /\ out[r].seq = calls[r]
            /\ inflight[r] = 0
            /\ waitRet[r] = [res |-> out[r], err |-> NoError]

\* C1 witness: QUEUED/RUNNING twice, then SUCCEEDED: three calls, success.
C1_Witness ==
    \E r \in Res :
        /\ LastState(r, SUCCEEDED) /\ spc[r] = "done"
        /\ pendingSeen[r] = 2 /\ absentSeen[r] = 0 /\ calls[r] = 3
        /\ waitRet[r].err = NoError

\* C2: when a probe call returned, with no error, a status outside
\* {QUEUED, RUNNING, SUCCEEDED}, the session has ended with an
\* UnexpectedStateError carrying that status, and that call is the last
\* probe call of the session.
C2_UnexpectedState ==
    \A r \in Res :
        ( /\ ~out[r].apiErr /\ out[r].hasStatus
          /\ out[r].State \notin {QUEUED, RUNNING, SUCCEEDED}
          /\ ~FailedWithReason(r) ) =>
            /\ spc[r] = "done"
            /\ waitRet[r] = [res |-> NilOutput,
                              err |-> UnexpectedStateError(out[r].State)]
            /\ out[r].seq = calls[r]
            /\ inflight[r] = 0

\* C2 witness: FAILED without a reason on the first call, long before the
\* timeout.
C2_Witness ==
    \E r \in Res :
        /\ LastState(r, FAILED) /\ out[r].StateChangeReason = Nil
        /\ calls[r] = 1 /\ calls[r] < MaxPolls
        /\ waitRet[r].err = UnexpectedStateError(FAILED)

\* C3: when GetQueryExecution failed on a probe call, the session has ended
\* with that error and no result, that call is its last probe call, and the
\* handler that waited returns the same error.
C3_ProbeError ==
    /\ [](\A r \in Res :
            out[r].apiErr =>
                /\ spc[r] = "done"
                /\ waitRet[r] = [res |-> NilOutput, err |-> GetQueryExecutionError]
                /\ out[r].seq = calls[r]
                /\ inflight[r] = 0)
    /\ [][\A r \in Res :
            (out[r].apiErr /\ hpc'[r] # hpc[r]) =>
                (hpc'[r] = "idle" /\ ret'[r] = GetQueryExecutionError)]_vars

\* C3 witness: a handler has returned the error of GetQueryExecution.
C3_Witness ==
    \E r \in Res : hpc[r] = "idle" /\ ret[r] = GetQueryExecutionError

\* C4: a session all of whose probe calls answered QUEUED or RUNNING and
\* that has ended, has ended with a TimeoutError and no result; a session
\* that ended with a TimeoutError returned no result and its result set is
\* never fetched; and every running session ends.
C4_Timeout ==
    /\ [](\A r \in Res :
            /\ (spc[r] = "done" /\ calls[r] = pendingSeen[r]) =>
                    waitRet[r] = [res |-> NilOutput,
                                  err |-> TimeoutError(out[r].State)]
            /\ waitRet[r].err.kind = "TimeoutError" =>
                    /\ spc[r] = "done"
                    /\ waitRet[r].res = NilOutput
                    /\ calls[r] = pendingSeen[r] + absentSeen[r]
                    /\ hpc[r] = "wait" /\ rs[r] = NoResultSet)
    /\ [][\A r \in Res :
            waitRet[r].err.kind = "TimeoutError" => hpc'[r] # "fetch"]_vars
    /\ \A r \in Res : Polling(r) ~> (spc[r] = "done")

\* C4 witness: RUNNING/QUEUED on every call until the timeout elapsed.
C4_Witness ==
    \E r \in Res :
        /\ spc[r] = "done" /\ calls[r] = pendingSeen[r] /\ calls[r] >= 2
        /\ waitRet[r].err.kind = "TimeoutError"

C7_AsClaimed ==
    [][\A r \in Res :
        ctxCancelled =>
            /\ calls'[r] = calls[r]
            /\ (spc[r] = "sleeping" /\ spc'[r] # "sleeping") =>
                   (spc'[r] = "done" /\ waitRet'[r].err = CancellationError)]_vars

\* What a session that did not time out returns for its last output.
ExpectedReturn(o) ==
    IF o.apiErr THEN [res |-> NilOutput, err |-> GetQueryExecutionError]
    ELSE IF o.State = SUCCEEDED THEN [res |-> o, err |-> NoError]
    ELSE IF o.State = FAILED /\ o.StateChangeReason # Nil
      THEN [res |-> NilOutput, err |-> ReasonError(o.StateChangeReason)]
    ELSE [res |-> NilOutput, err |-> UnexpectedStateError(o.State)]

\* C8: a session never has more than one probe call in progress, and a
\* probe call is in progress exactly while the session is in that call;
\* every step changes the state of at most one resource's handler and
\* session; and what a session returns is determined by its own last output
\* (or its own timeout).
C8_SequentialAndIndependent ==
    /\ [](\A r \in Res :
            /\ inflight[r] \in {0, 1}
            /\ (inflight[r] = 1) <=> (spc[r] = "probing")
            /\ spc[r] = "done" =>
                   \/ waitRet[r] = ExpectedReturn(out[r])
                   \/ /\ waitRet[r] = [res |-> NilOutput,
                                        err |-> TimeoutError(out[r].State)]
                      /\ (IsPendingOutput(out[r]) \/ IsAbsentOutput(out[r])))
    /\ [][Cardinality({r \in Res : Own(r)' # Own(r)}) <= 1]_vars

\* C8 witness: two sessions are in a probe call at the same time, one in its
\* first call and the other in a later one.
C8_Witness ==
    /\ spc["r1"] = "probing" /\ spc["r2"] = "probing"
    /\ calls["r1"] = 1 /\ calls["r2"] > 1

\* C9: a session that has ended has ended in success exactly when its last
\* observed status is SUCCEEDED; the results are fetched, and with them the
\* rows are checked, only after the wait ended in success.
C9_StatusOnly ==
    /\ [](\A r \in Res :
            /\ spc[r] = "done" =>
                   ((waitRet[r].err = NoError) <=> LastState(r, SUCCEEDED))
            /\ hpc[r] = "fetch" =>
                   /\ spc[r] = "done"
                   /\ waitRet[r] = [res |-> out[r], err |-> NoError]
                   /\ LastState(r, SUCCEEDED))
    /\ [][\A r \in Res :
            ( \/ ret'[r].kind \in {"unexpected query result",
                                    "Athena not found database"}
              \/ id'[r] # id[r] ) =>
                (hpc[r] = "fetch" /\ LastState(r, SUCCEEDED))]_vars

\* C9 witness: a create query whose wait succeeded returned rows, which the
\* caller then rejected.
C9_Witness ==
    \E r \in Res :
        hpc[r] = "idle" /\ ret[r] = UnexpectedQueryResult("create")

\* C10: the ID changes only in Create, from unset to the name, in the step
\* that fetched a result set with zero rows for the create query after its
\* wait ended in SUCCEEDED; when Create returns while its create query is
\* the current one, it returns an error and the ID is unset; and the results
\* are fetched only after a wait that ended in success.
C10_CreateSetsId ==
    [][\A r \in Res :
        /\ id'[r] # id[r] =>
              /\ id[r] = "" /\ id'[r] = DbName
              /\ op[r] = "create" /\ query[r] = "create" /\ hpc[r] = "fetch"
              /\ spc[r] = "done" /\ waitRet[r].err = NoError
              /\ LastState(r, SUCCEEDED)
              /\ rs'[r] = [ok |-> TRUE, Rows |-> <<>>]
        /\ (query[r] = "create" /\ hpc[r] # "idle" /\ hpc'[r] = "idle") =>
              (ret'[r] # NoError /\ id'[r] = "" /\ op[r] = "create")
        /\ (hpc'[r] = "fetch" /\ hpc[r] # "fetch") =>
              (hpc[r] = "wait" /\ spc[r] = "done" /\ waitRet[r].err = NoError
               /\ LastState(r, SUCCEEDED))]_vars

\* C10 witness: Create has set the ID after its create query returned zero
\* rows and goes on to read the database back.
C10_Witness ==
    \E r \in Res :
        /\ op[r] = "create" /\ id[r] = DbName /\ query[r] = "show"
        /\ hpc[r] = "start" /\ rs[r] = [ok |-> TRUE, Rows |-> <<>>]

\* C11: when GetHealthCheck answers NoSuchHealthCheck, Read clears the ID
\* and returns nil and changes no other attribute; when it answers another
\* error, Read returns that error and leaves ID and attributes as they are.
\* When DeleteHealthCheck answers NoSuchHealthCheck, Delete returns nil; when
\* it answers another error, Delete returns an error that wraps it.  So once
\* the health check has vanished remotely, while only Read and Delete run and
\* every call is answered NoSuchHealthCheck, every handler returns nil, and
\* once a Read has made its call the ID is empty.
C11_RemotelyDeleted ==
    /\ [][(hcPc = "GetHealthCheck" /\ hcPc' # hcPc) =>
            /\ hcAnswer' = "NoSuchHealthCheck" =>
                  /\ hcId' = "" /\ hcRet' = NoError /\ hcPc' = "idle"
                  /\ hcAttrs' = hcAttrs /\ hcRemote' = hcRemote
            /\ hcAnswer' = "Other" =>
                  /\ hcRet' = OtherRoute53Error /\ hcPc' = "idle"
                  /\ hcId' = hcId /\ hcAttrs' = hcAttrs]_vars
    /\ [][(hcPc = "DeleteHealthCheck" /\ hcPc' # hcPc) =>
            /\ hcPc' = "idle" /\ hcId' = hcId /\ hcAttrs' = hcAttrs
            /\ hcAnswer' = "NoSuchHealthCheck" => hcRet' = NoError
            /\ hcAnswer' = "Other" =>
                  hcRet' = Wrapped("error deleting Route53 Health Check",
                                   OtherRoute53Error)]_vars
    /\ [][(/\ hcTrail \in {"clean", "read"} /\ hcTrail' \in {"clean", "read"}
           /\ hcPc # "idle" /\ hcPc' = "idle") => hcRet' = NoError]_vars
    /\ [](hcTrail \in {"clean", "read"} => ~hcRemote.exists)
    /\ [](hcTrail = "read" => (hcId = "" /\ hcRet = NoError))

\* C11 witness: a health check that had been read before vanished remotely;
\* a Read then was answered NoSuchHealthCheck, cleared the ID, kept the
\* other attributes and returned nil.
C11_Witness ==
    /\ hcTrail = "read" /\ hcOp = "read" /\ hcPc = "idle"
    /\ hcAnswer = "NoSuchHealthCheck"
    /\ hcId = "" /\ hcRet = NoError
    /\ hcAttrs.arn = HcArn(HealthCheckId) /\ hcAttrs.tags = "tags1"
====
